---------------------------- MODULE Spec2Model ----------------------------
(***************************************************************************)
(* Model of the pairing-witness oracle (oracle/src/ops.rs, handlers.rs,    *)
(* main.rs).                                                               *)
(*                                                                         *)
(* The arithmetic of ark_bn254 is kept, its size is not: the base field    *)
(* F_p is the prime field of p = 271 elements and Fq12 is the quadratic    *)
(* extension F_p[u]/(u^2 + 1) (the bottom step of the BN254 tower), whose  *)
(* elements are the tuples <<c0, c1>> of base-field coordinates.  The      *)
(* scaled parameters keep every arithmetic fact of BN254 the code relies   *)
(* on (each was checked on the 3044-bit values):                           *)
(*    27 | p12 - 1 and 81 does not divide it;  (p12 - 1)/27 = 2 (mod 3);   *)
(*    r is prime, r | p12 - 1, gcd(r, h) = 1 for h = (p12 - 1)/r;          *)
(*    r | lambda, 3 | lambda/r, gcd(mp, p12 - 1) = 1;  p = 1 (mod 3).      *)
(* Limbs are LimbBits = 3 bits wide (120 in the source), so that, as in    *)
(* the source, a coordinate needs all of its 3 limbs.                      *)
(***************************************************************************)
EXTENDS Integers, Sequences, FiniteSets, TLC

(***************************************************************************)
(* Domain constants (scaled).                                              *)
(***************************************************************************)
\* Fq::MODULUS
p == 271
\* Fr::MODULUS
r == 17
\* number of base-field coordinates of an Fq12 element (12 in the source)
NumCoords == 2
\* (x - 1)/2 for the curve parameter x
xm1div2 == 1
\* limb width in bits: shift_constant = 2^LimbBits
LimbBits == 3
\* limbs per coordinate
NumLimbs == 3

(***************************************************************************)
(* Bounds of the model.                                                    *)
(***************************************************************************)
\* field-element inputs have coordinates in 0..MaxCoord
MaxCoord == 5
\* number of samples of the deterministic RNG stream that are modelled
MaxDraws == 2
\* the correction counter of tonelli_shanks_third_root saturates here
MaxIter == 28
\* invert is applied to a in 0..MaxInvA and modulus in 1..MaxInvM
MaxInvA == 14
MaxInvM == 12
\* a limb string carries up to MaxZeros leading zeros
MaxZeros == 1

(***************************************************************************)
(* Integer helpers.                                                        *)
(***************************************************************************)
RECURSIVE IntPow(_, _)
IntPow(b, e) == IF e = 0 THEN 1 ELSE b * IntPow(b, e - 1)

\* q.pow(12): the size of the extension field
p12 == IntPow(p, NumCoords)

(***************************************************************************)
(* Fq12 arithmetic (ark_bn254::Fq12, scaled).                              *)
(***************************************************************************)
Fq == 0 .. (p - 1)
Fq12 == Fq \X Fq

Fq12_one == <<1, 0>>
Fq12_zero == <<0, 0>>

Mul(a, b) ==
    << (a[1] * b[1] + (p - a[2]) * b[2]) % p,
       (a[1] * b[2] + a[2] * b[1]) % p >>

\* Field::pow: square-and-multiply over the bits of the exponent, most
\* significant first.
RECURSIVE Pow(_, _)
Pow(a, e) ==
    IF e = 0 THEN Fq12_one
    ELSE LET h == Pow(a, e \div 2)
             sq == Mul(h, h)
         IN  IF e % 2 = 1 THEN Mul(sq, a) ELSE sq

\* Field::inverse: None for zero.
None == <<"None">>

\* mutant: the inverse as the power a^(p12 - 2), which is 0 for zero
Inverse_by_power(a) == Pow(a, p12 - 2)

Inverse(a) == IF a = Fq12_zero THEN None ELSE Pow(a, p12 - 2)


(***************************************************************************)
(* ModInv (ops.rs: extended_gcd, invert).  The operands are non-negative   *)
(* on entry (they come from BigUint) and the remainder stays non-negative, *)
(* so the truncating division of num_bigint::BigInt is \div here; the      *)
(* Bezout coefficients are signed.                                         *)
(***************************************************************************)
\* The while loop of extended_gcd; the state is the six loop variables.
RECURSIVE extended_gcd_loop(_, _, _, _, _, _)
extended_gcd_loop(a, b, x, y, u, v) ==
    IF a = 0 THEN <<b, x, y>>
    ELSE LET q  == b \div a
             rm == b % a
             m  == x - u * q
             n  == y - v * q
         IN  extended_gcd_loop(rm, a, u, v, m, n)

extended_gcd(a, b) == extended_gcd_loop(a, b, 0, 1, 1, 0)

\* mutant: the result handed back as the Bezout coefficient is
invert_not_normalised(res, modulus) == res

\* The normalisation loop of invert: add the modulus while negative.
RECURSIVE invert_normalise(_, _)
invert_normalise(res, modulus) ==
    IF res < 0 THEN invert_normalise(res + modulus, modulus) ELSE res

\* invert: [ok |-> FALSE] is the failed assert_eq!(gcd, 1).
invert(a, modulus) ==
    LET g == extended_gcd(a, modulus)
    IN  IF g[1] # 1
        THEN [ok |-> FALSE, val |-> 0]
        ELSE [ok |-> TRUE, val |-> invert_normalise(g[2], modulus)]

(***************************************************************************)
(* Pure operations of WitnessGenerator (ops.rs).                           *)
(***************************************************************************)
pow_p12_minus_one_div_27(a) == Pow(a, (p12 - 1) \div 27)

\* mutant: the exponent of the 27-th power test used for the cubic test
pow_p12_minus_one_div_3_wrong_exp(a) == Pow(a, (p12 - 1) \div 27)

pow_p12_minus_one_div_3(a) == Pow(a, (p12 - 1) \div 3)

is_third_root(a) == pow_p12_minus_one_div_3(a) = Fq12_one

\* h = (p^12 - 1) / r
h_cofactor == (p12 - 1) \div r

\* mutant: r inverted modulo the group order p12 - 1 instead of h
r_th_root_of_f_mod_order(f) == Pow(f, invert(r, p12 - 1).val)

r_th_root_of_f(f) == Pow(f, invert(r, h_cofactor).val)

\* lambda = 6x + 2 + q + q^3 - q^2
lambda ==
    LET x == xm1div2 * 2 + 1
    IN  ((6 * x + 2) + p + IntPow(p, 3)) - IntPow(p, 2)

\* mp = (lambda / r) / 3
mp == (lambda \div r) \div 3

mp_th_root_of_c(c) == Pow(c, invert(mp, h_cofactor).val)

\* mutant: the first guess a^(s/3), without the + 1
ts_exp_no_plus_one == ((p12 - 1) \div 27) \div 3

\* exp = ((p^12 - 1)/27 + 1) / 3, the exponent of the first guess
ts_exp == (((p12 - 1) \div 27) + 1) \div 3

\* the loop condition of tonelli_shanks_third_root, for a # 0
ts_residual(x, a) == Mul(Pow(x, 3), Inverse(a))

\* Rust's ^ on integers: bitwise exclusive or
RECURSIVE BitXor(_, _)
BitXor(a, b) ==
    IF a = 0 /\ b = 0 THEN 0
    ELSE ((a + b) % 2) + 2 * BitXor(a \div 2, b \div 2)

\* the exponent of w in the second component: 3^s as u64
wg_u_exponent(s) == BitXor(3, s)

\* the branch of witness_generator that picks s and the shifted f
wg_select(f, w) ==
    IF pow_p12_minus_one_div_3(f) = Fq12_one THEN [s |-> 0, f |-> f]
    ELSE IF pow_p12_minus_one_div_3(Mul(f, w)) = Fq12_one
         THEN [s |-> 1, f |-> Mul(f, w)]
         ELSE [s |-> 2, f |-> Mul(f, Pow(w, 2))]

\* mutant: the second test on w^3 instead of w^9
f27_accepts_cube(w) == w # Fq12_one /\ Pow(w, 3) # Fq12_one

\* acceptance tests of the two sampling loops
f27_accepts(w) == w # Fq12_one /\ Pow(w, 9) # Fq12_one

ftnr_accepts(b) == Pow(b, 3) # Fq12_one

(***************************************************************************)
(* Limb codec (handlers.rs).  A String is the sequence of its characters;  *)
(* the model's alphabet is the hexadecimal digits of both cases and "g",   *)
(* a character that is no digit.                                           *)
(***************************************************************************)
HexDigits == <<"0", "1", "2", "3", "4", "5", "6", "7",
               "8", "9", "a", "b", "c", "d", "e", "f">>
UpperDigits == <<"0", "1", "2", "3", "4", "5", "6", "7",
                 "8", "9", "A", "B", "C", "D", "E", "F">>

IsHexChar(c) == \E i \in 1 .. 16 : HexDigits[i] = c \/ UpperDigits[i] = c

HexVal(c) == (CHOOSE i \in 1 .. 16 : HexDigits[i] = c \/ UpperDigits[i] = c) - 1

\* BigUint::to_str_radix(16): lowercase, no leading zeros, "0" for zero
RECURSIVE to_str_radix(_)
to_str_radix(n) ==
    IF n < 16 THEN <<HexDigits[n + 1]>>
    ELSE to_str_radix(n \div 16) \o <<HexDigits[(n % 16) + 1]>>

\* the digits of from_str_radix, most significant first
RECURSIVE hex_value(_, _)
hex_value(str, acc) ==
    IF str = <<>> THEN acc
    ELSE hex_value(Tail(str), 16 * acc + HexVal(Head(str)))

\* BigUint::from_str_radix(s, 16): an Err for the empty string and for a
\* character that is no digit
from_str_radix(str) ==
    IF str = <<>> \/ \E i \in 1 .. Len(str) : ~ IsHexChar(str[i])
    THEN [ok |-> FALSE, val |-> 0]
    ELSE [ok |-> TRUE, val |-> hex_value(str, 0)]

\* str::trim_start_matches('0')
RECURSIVE trim_start_matches_0(_)
trim_start_matches_0(str) ==
    IF str # <<>> /\ Head(str) = "0" THEN trim_start_matches_0(Tail(str))
    ELSE str

\* ForeignCallParam<String>
Single(value) == [tag |-> "Single", values |-> <<value>>]
Array(values) == [tag |-> "Array", values |-> values]

\* callparam_to_string: the strings of the param, leading zeros trimmed
callparam_to_string(input) ==
    [i \in 1 .. Len(input.values) |-> trim_start_matches_0(input.values[i])]

\* the limb pushed for one input string of cast_to_biguint
parse_limb(input_string) ==
    IF input_string = <<>> THEN from_str_radix(<<"0">>)
    ELSE from_str_radix(input_string)

\* shift_constant = 2^120 (scaled: 2^LimbBits)
shift_constant == IntPow(2, LimbBits)

\* mutant: the exponent of the shift counted from 1
RECURSIVE recompose_from_one(_, _)
recompose_from_one(limbs, i) ==
    IF i > Len(limbs) THEN 0
    ELSE limbs[i].val * IntPow(2, LimbBits * i) + recompose_from_one(limbs, i + 1)

\* res = sum of limbs[i] * shift_constant^i
RECURSIVE recompose(_, _)
recompose(limbs, i) ==
    IF i > Len(limbs) THEN 0
    ELSE limbs[i].val * IntPow(shift_constant, i - 1) + recompose(limbs, i + 1)

\* cast_to_biguint: [ok |-> FALSE] is the panic of unwrap() on an Err
cast_to_biguint(input_strings) ==
    LET limbs == [i \in 1 .. Len(input_strings) |-> parse_limb(input_strings[i])]
    IN  IF \E i \in 1 .. Len(limbs) : ~ limbs[i].ok
        THEN [ok |-> FALSE, val |-> 0]
        ELSE [ok |-> TRUE, val |-> recompose(limbs, 1)]

\* get_fq12_from_callparam: every input is cast and reduced (Fq::from),
\* then the first NumCoords become the coordinates; [ok |-> FALSE] is a
\* panic, of a cast or of the index biguints[i] past the end
get_fq12_from_callparam(inputs) ==
    LET casts == [i \in 1 .. Len(inputs) |->
                     cast_to_biguint(callparam_to_string(inputs[i]))]
    IN  IF \/ \E i \in 1 .. Len(inputs) : ~ casts[i].ok
           \/ Len(inputs) < NumCoords
        THEN [ok |-> FALSE, elt |-> Fq12_zero]
        ELSE [ok |-> TRUE, elt |-> [i \in 1 .. NumCoords |-> casts[i].val % p]]

\* cast_bigint_to_bignum_limbs, for the non-negative inputs it is given
RECURSIVE cast_bigint_to_bignum_limbs(_, _)
cast_bigint_to_bignum_limbs(input, num_limbs) ==
    IF num_limbs = 0 THEN <<>>
    ELSE <<to_str_radix(input % shift_constant)>>
         \o cast_bigint_to_bignum_limbs(input \div shift_constant, num_limbs - 1)

\* cast_fp12_to_noir_fp12: the limbs of the coordinates, in order, in one
\* flat list
RECURSIVE fp12_limbs_from(_, _)
fp12_limbs_from(input, i) ==
    IF i > NumCoords THEN <<>>
    ELSE cast_bigint_to_bignum_limbs(input[i], NumLimbs)
         \o fp12_limbs_from(input, i + 1)

cast_fp12_to_noir_fp12(input) == fp12_limbs_from(input, 1)

(***************************************************************************)
(* serde_json::Value, as far as the responses use it.                      *)
(***************************************************************************)
JString(str) == [kind |-> "string", str |-> str]
JArray(items) == [kind |-> "array", items |-> items]
JObject(fields) == [kind |-> "object", fields |-> fields]

\* json!(v) for v: Vec<String>
JStrings(v) == JArray([i \in 1 .. Len(v) |-> JString(v[i])])

\* mutant: the vectors answered without the object around them
JBareVecs(return_vec) ==
    JArray([i \in 1 .. Len(return_vec) |-> JStrings(return_vec[i])])

\* json!({"values": return_vec}) for return_vec: Vec<Vec<String>>
JValuesOfVecs(return_vec) ==
    JObject([values |->
        JArray([i \in 1 .. Len(return_vec) |-> JStrings(return_vec[i])])])

\* json!({"values": return_vec}) for return_vec: Vec<String>
JValuesOfStrings(return_vec) == JObject([values |-> JStrings(return_vec)])

HelloWorld == <<"H", "e", "l", "l", "o", ",", " ", "w", "o", "r", "l", "d", "!">>
Oops == <<"o", "o", "p", "s">>
BadQuery == <<"B", "a", "d", " ", "q", "u", "e", "r", "y">>

\* bool into BigUint
BoolToBigUint(b) == IF b THEN 1 ELSE 0

\* the match of resolve_foreign_call
HandlerOf(function) ==
    CASE function = "witness_gen" -> "handle_witness_gen"
      [] function = "third_root" -> "handle_third_root"
      [] function = "is_third_root" -> "handle_is_third_root"
      [] function = "random_third_root" -> "handle_random_third_root"
      [] function = "get_pairing_witnesses" -> "handle_get_pairing_witnesses"
      [] OTHER -> "handle_unknown_function"

(***************************************************************************)
(* Inputs.                                                                 *)
(***************************************************************************)
\* field elements handed to the operations
Fq12Inputs == (0 .. MaxCoord) \X (0 .. MaxCoord)

\* Values Fq12::rand can produce under ark_std::test_rng().  The seed is   
\* fixed, so the stream is one fixed sequence; its values are not known to 
\* the model, which lets each position be any of these representatives:    
\* x^((p12-1)/27) has order 1 for <<1,0>>, 3 for <<3,0>>, 9 for <<2,2>>    
\* and 27 for <<2,0>> and <<0,2>>.                                         
RngSamples == { <<1, 0>>, <<3, 0>>, <<2, 2>>, <<2, 0>>, <<0, 2>> }

\* limb strings: a body after 0..MaxZeros zeros.  "4" is a limb, "c" is a
\* hexadecimal number that is no limb (12 >= 2^LimbBits), "g" is no number.
LimbBodies == { <<>>, <<"4">>, <<"c">>, <<"g">> }

RECURSIVE Zeros(_)
Zeros(k) == IF k = 0 THEN <<>> ELSE <<"0">> \o Zeros(k - 1)

LimbStrings == { Zeros(k) \o body : k \in 0 .. MaxZeros, body \in LimbBodies }

\* the params a coordinate is sent as
CodecParams ==
    { Array(<<a, b, c>>) : a \in LimbStrings, b \in LimbStrings, c \in LimbStrings }
    \cup { Single(a) : a \in LimbStrings }

\* two fixed params: the coordinates 260 and 0
FewParams == { Array(<<<<"4">>, <<>>, <<"0", "4">>>>),
               Array(<<<<>>, <<"0">>, <<>>>>) }

\* the input lists decoded by the codec round trip
CodecInputs ==
    { <<a, b>> : a \in CodecParams, b \in FewParams }
    \cup { <<b, a>> : a \in CodecParams, b \in FewParams }

\* input lists with one coordinate too few and one too many, every limb
\* well formed
MiscountedInputs ==
    { <<Array(<<<<"4">>, <<>>, <<>>>>)>>,
      <<Array(<<<<"4">>, <<>>, <<>>>>), Array(<<<<"1">>, <<>>, <<>>>>),
        Array(<<<<"2">>, <<>>, <<>>>>)>> }

\* the elements encoded by the codec round trip: each coordinate takes
\* every value of Fq
CodecElts == (Fq \X (0 .. MaxCoord)) \cup ((0 .. MaxCoord) \X Fq)

\* the caller's framing of an encoded element: one Array param of NumLimbs
\* limbs per coordinate
AsArrayParams(limbs) ==
    [i \in 1 .. NumCoords |->
        Array([j \in 1 .. NumLimbs |-> limbs[(i - 1) * NumLimbs + j]])]

\* the params of a request: a coordinate 0..MaxCoord as its NumLimbs limbs,
\* a single zero-padded limb, and a limb that is no number
ReqParams ==
    { Array(cast_bigint_to_bignum_limbs(v, NumLimbs)) : v \in 0 .. MaxCoord }
    \cup { Single(<<"0", "1">>), Array(<<<<"g">>, <<>>, <<>>>>) }

\* the input lists of a request: NumCoords params, or one too few, or one
\* too many
ReqInputs ==
    { <<a, b>> : a \in ReqParams, b \in ReqParams }
    \cup { <<Single(<<"1">>)>>,
           <<Single(<<"1">>), Single(<<>>), Single(<<"2">>)>> }

\* the names a request can carry: those of main.rs and one more
FunctionNames ==
    { "witness_gen", "third_root", "is_third_root", "random_third_root",
      "get_pairing_witnesses", "unknown" }

(***************************************************************************)
(* State.                                                                  *)
(***************************************************************************)
VARIABLES
    pc,        \* control location of the running call
    stack,     \* return locations of the calls in progress
    op,        \* the operation called at top level
    arg,       \* its argument
    ret,       \* values returned by the last return
    stream,    \* the samples of the test_rng stream drawn so far
    rngPos,    \* number of samples the live rng object has produced
    wg_w, wg_f, wg_s,           \* locals of witness_generator
    ts_a, ts_w, ts_x, ts_iter,  \* locals of tonelli_shanks_third_root
    ftnr_iter,                  \* iterations of find_third_non_residue
    rtr_a,                      \* local of rand_third_root
    inv_a, inv_m, inv_out,      \* a call of invert and its outcome
    cd_dir, cd_x, cd_in, cd_dec, cd_out,  \* a round trip through the codec
    cc_call,   \* the calls of resolve_foreign_call running side by side
    cc_rng,    \* the position of each rng object those calls build
    req,       \* the request resolve_foreign_call is serving
    fp12,      \* the element the handler decoded
    response   \* the JSON value it answered

wgVars == <<wg_w, wg_f, wg_s>>
tsVars == <<ts_a, ts_w, ts_x, ts_iter>>
rngVars == <<stream, rngPos>>
pureVars == <<inv_a, inv_m, inv_out, cd_dir, cd_x, cd_in, cd_dec, cd_out,
              cc_call, cc_rng>>
srvVars == <<req, fp12, response>>
vars == <<pc, stack, op, arg, ret, stream, rngPos, wg_w, wg_f, wg_s,
          ts_a, ts_w, ts_x, ts_iter, ftnr_iter, rtr_a,
          inv_a, inv_m, inv_out, cd_dir, cd_x, cd_in, cd_dec, cd_out,
          cc_call, cc_rng, req, fp12, response>>

NoRequest == [function |-> "", inputs |-> <<>>]
NoResponse == [kind |-> "none"]

\* the calls of resolve_foreign_call the runtime runs in parallel
Calls == {"call1", "call2"}

\* a call that has not started: no request, no locals, no response
IdleCall ==
    [pc |-> "idle", req |-> NoRequest, a |-> Fq12_zero, w |-> Fq12_zero,
     s |-> 0, out |-> NoResponse]

Init ==
    /\ pc = "idle"
    /\ stack = <<>>
    /\ op = ""
    /\ arg = Fq12_zero
    /\ ret = <<>>
    /\ stream = <<>>
    /\ rngPos = 0
    /\ wg_w = Fq12_zero /\ wg_f = Fq12_zero /\ wg_s = 0
    /\ ts_a = Fq12_zero /\ ts_w = Fq12_zero /\ ts_x = Fq12_zero /\ ts_iter = 0
    /\ ftnr_iter = 0
    /\ rtr_a = Fq12_zero
    /\ inv_a = 0 /\ inv_m = 1 /\ inv_out = [ok |-> TRUE, val |-> 0]
    /\ cd_dir = "none" /\ cd_x = Fq12_zero /\ cd_in = <<>>
    /\ cd_dec = [ok |-> FALSE, elt |-> Fq12_zero] /\ cd_out = <<>>
    /\ cc_call = [i \in Calls |-> IdleCall]
    /\ cc_rng = [i \in Calls |-> 0]
    /\ req = NoRequest
    /\ fp12 = Fq12_zero
    /\ response = NoResponse

(***************************************************************************)
(* Calls and returns.                                                      *)
(***************************************************************************)
\* return v to the caller, or finish the top-level call
Return(v) ==
    /\ ret' = v
    /\ IF stack = <<>>
       THEN pc' = "done" /\ stack' = stack
       ELSE pc' = Head(stack) /\ stack' = Tail(stack)

\* call the function at `entry`, coming back to `back`
CallSub(entry, back) ==
    /\ pc' = entry
    /\ stack' = <<back>> \o stack

\* Fq12::rand(&mut rng): the next sample of the stream.  A position drawn
\* before yields the same value again (the seed is fixed).
Draw(x) ==
    /\ rngPos < MaxDraws
    /\ IF rngPos < Len(stream)
       THEN x = stream[rngPos + 1] /\ stream' = stream
       ELSE stream' = Append(stream, x)
    /\ rngPos' = rngPos + 1

\* mutant: the rng is not created anew, the draw is its next sample
DrawFirst_rng_kept(x) == Draw(x)

\* ark_std::test_rng() followed by the first Fq12::rand
DrawFirst(x) ==
    /\ IF 0 < Len(stream)
       THEN x = stream[1] /\ stream' = stream
       ELSE stream' = Append(stream, x)
    /\ rngPos' = 1

Saturate(n) == IF n < MaxIter THEN n + 1 ELSE MaxIter

(***************************************************************************)
(* find_27th_root (ops.rs 165-175).                                        *)
(***************************************************************************)
\* let mut rng = ark_std::test_rng();
F27_Start ==
    /\ pc = "find_27th_root"
    /\ rngPos' = 0
    /\ pc' = "f27_loop"
    /\ UNCHANGED <<stack, op, arg, ret, stream, wgVars, tsVars, ftnr_iter,
                   rtr_a, pureVars, srvVars>>

\* one iteration whose sample passes the test: return w
F27_Accept ==
    /\ pc = "f27_loop"
    /\ \E x \in RngSamples :
          /\ Draw(x)
          /\ f27_accepts(pow_p12_minus_one_div_27(x))
          /\ Return(<<pow_p12_minus_one_div_27(x)>>)
    /\ UNCHANGED <<op, arg, wgVars, tsVars, ftnr_iter, rtr_a, pureVars, srvVars>>

\* one iteration whose sample fails the test: loop
F27_Reject ==
    /\ pc = "f27_loop"
    /\ \E x \in RngSamples :
          /\ Draw(x)
          /\ ~ f27_accepts(pow_p12_minus_one_div_27(x))
    /\ UNCHANGED <<pc, stack, op, arg, ret, wgVars, tsVars, ftnr_iter, rtr_a,
                   pureVars, srvVars>>

(***************************************************************************)
(* find_third_non_residue (ops.rs 177-186): the rng is created inside the  *)
(* loop, so every iteration draws the first sample of the stream.          *)
(***************************************************************************)
FTNR_Accept ==
    /\ pc = "find_third_non_residue"
    /\ \E a \in RngSamples :
          /\ DrawFirst(a)
          /\ ftnr_accepts(pow_p12_minus_one_div_27(a))
          /\ Return(<<a, pow_p12_minus_one_div_27(a)>>)
    /\ ftnr_iter' = Saturate(ftnr_iter)
    /\ UNCHANGED <<op, arg, wgVars, tsVars, rtr_a, pureVars, srvVars>>

FTNR_Reject ==
    /\ pc = "find_third_non_residue"
    /\ \E a \in RngSamples :
          /\ DrawFirst(a)
          /\ ~ ftnr_accepts(pow_p12_minus_one_div_27(a))
    /\ ftnr_iter' = Saturate(ftnr_iter)
    /\ UNCHANGED <<pc, stack, op, arg, ret, wgVars, tsVars, rtr_a, pureVars,
                   srvVars>>

(***************************************************************************)
(* rand_third_root (ops.rs 215-222).                                       *)
(***************************************************************************)
\* let mut rng = test_rng(); let mut a = Fq12::rand(&mut rng);
RTR_Start ==
    /\ pc = "rand_third_root"
    /\ \E a \in RngSamples : DrawFirst(a) /\ rtr_a' = a
    /\ pc' = "rtr_loop"
    /\ UNCHANGED <<stack, op, arg, ret, wgVars, tsVars, ftnr_iter, pureVars,
                   srvVars>>

\* while !is_third_root(&a) { a = Fq12::rand(&mut rng); }
RTR_Resample ==
    /\ pc = "rtr_loop"
    /\ ~ is_third_root(rtr_a)
    /\ \E a \in RngSamples : Draw(a) /\ rtr_a' = a
    /\ UNCHANGED <<pc, stack, op, arg, ret, wgVars, tsVars, ftnr_iter, pureVars,
                   srvVars>>

RTR_Return ==
    /\ pc = "rtr_loop"
    /\ is_third_root(rtr_a)
    /\ Return(<<rtr_a>>)
    /\ UNCHANGED <<op, arg, rngVars, wgVars, tsVars, ftnr_iter, rtr_a, pureVars,
                   srvVars>>

(***************************************************************************)
(* tonelli_shanks_third_root (ops.rs 140-152); the argument is in ts_a.    *)
(***************************************************************************)
\* let w = Self::find_27th_root();
TS_Start ==
    /\ pc = "tonelli_shanks_third_root"
    /\ CallSub("find_27th_root", "ts_init")
    /\ UNCHANGED <<op, arg, ret, rngVars, wgVars, tsVars, ftnr_iter, rtr_a,
                   pureVars, srvVars>>

\* let mut x = a.pow(exp);
TS_Init ==
    /\ pc = "ts_init"
    /\ ts_w' = ret[1]
    /\ ts_x' = Pow(ts_a, ts_exp)
    /\ ts_iter' = 0
    /\ pc' = "ts_loop"
    /\ UNCHANGED <<stack, op, arg, ret, rngVars, wgVars, ts_a, ftnr_iter,
                   rtr_a, pureVars, srvVars>>

\* a.inverse().unwrap() on a = 0: the call panics
TS_Panic ==
    /\ pc = "ts_loop"
    /\ Inverse(ts_a) = None
    /\ pc' = "panic"
    /\ UNCHANGED <<stack, op, arg, ret, rngVars, wgVars, tsVars, ftnr_iter,
                   rtr_a, pureVars, srvVars>>

\* the loop body: x = x * w
TS_Correct ==
    /\ pc = "ts_loop"
    /\ Inverse(ts_a) # None
    /\ ts_residual(ts_x, ts_a) # Fq12_one
    /\ ts_x' = Mul(ts_x, ts_w)
    /\ ts_iter' = Saturate(ts_iter)
    /\ UNCHANGED <<pc, stack, op, arg, ret, rngVars, wgVars, ts_a, ts_w,
                   ftnr_iter, rtr_a, pureVars, srvVars>>

\* the loop condition is false: return x
TS_Return ==
    /\ pc = "ts_loop"
    /\ Inverse(ts_a) # None
    /\ ts_residual(ts_x, ts_a) = Fq12_one
    /\ Return(<<ts_x>>)
    /\ UNCHANGED <<op, arg, rngVars, wgVars, tsVars, ftnr_iter, rtr_a, pureVars,
                   srvVars>>

(***************************************************************************)
(* witness_generator (ops.rs 39-58); the argument is in wg_f.              *)
(***************************************************************************)
\* let w = Self::find_27th_root();
WG_Start ==
    /\ pc = "witness_generator"
    /\ CallSub("find_27th_root", "wg_select")
    /\ UNCHANGED <<op, arg, ret, rngVars, wgVars, tsVars, ftnr_iter, rtr_a,
                   pureVars, srvVars>>

\* let mut f = input; let s = if ... else if ... else ...;
WG_Select ==
    /\ pc = "wg_select"
    /\ wg_w' = ret[1]
    /\ wg_s' = wg_select(wg_f, ret[1]).s
    /\ wg_f' = wg_select(wg_f, ret[1]).f
    /\ pc' = "wg_roots"
    /\ UNCHANGED <<stack, op, arg, ret, rngVars, tsVars, ftnr_iter, rtr_a,
                   pureVars, srvVars>>

\* c = r_th_root_of_f(f); c = mp_th_root_of_c(c); tonelli_shanks_third_root(c)
WG_Roots ==
    /\ pc = "wg_roots"
    /\ ts_a' = mp_th_root_of_c(r_th_root_of_f(wg_f))
    /\ CallSub("tonelli_shanks_third_root", "wg_return")
    /\ UNCHANGED <<op, arg, ret, rngVars, wgVars, ts_w, ts_x, ts_iter,
                   ftnr_iter, rtr_a, pureVars, srvVars>>

\* (c, w.pow([3^s as u64]))
WG_Return ==
    /\ pc = "wg_return"
    /\ Return(<<ret[1], Pow(wg_w, wg_u_exponent(wg_s))>>)
    /\ UNCHANGED <<op, arg, rngVars, wgVars, tsVars, ftnr_iter, rtr_a, pureVars,
                   srvVars>>

(***************************************************************************)
(* Direct calls of the operations, as the tests of ops.rs make them.       *)
(***************************************************************************)
\* what a call starts from: the locals of the previous call are gone
FreshLocals ==
    /\ stack' = <<>>
    /\ ret' = <<>>
    /\ rngPos' = 0
    /\ wg_w' = Fq12_zero /\ wg_s' = 0
    /\ ts_w' = Fq12_zero /\ ts_x' = Fq12_zero /\ ts_iter' = 0
    /\ ftnr_iter' = 0
    /\ rtr_a' = Fq12_zero

Call_witness_generator ==
    /\ pc = "idle"
    /\ \E f \in Fq12Inputs : arg' = f /\ wg_f' = f
    /\ op' = "witness_generator"
    /\ pc' = "witness_generator"
    /\ FreshLocals
    /\ ts_a' = Fq12_zero
    /\ UNCHANGED <<stream, pureVars, srvVars>>

Call_tonelli_shanks_third_root ==
    /\ pc = "idle"
    /\ \E a \in Fq12Inputs : arg' = a /\ ts_a' = a
    /\ op' = "tonelli_shanks_third_root"
    /\ pc' = "tonelli_shanks_third_root"
    /\ FreshLocals
    /\ wg_f' = Fq12_zero
    /\ UNCHANGED <<stream, pureVars, srvVars>>

Call_find_27th_root ==
    /\ pc = "idle"
    /\ arg' = Fq12_zero
    /\ op' = "find_27th_root"
    /\ pc' = "find_27th_root"
    /\ FreshLocals
    /\ wg_f' = Fq12_zero /\ ts_a' = Fq12_zero
    /\ UNCHANGED <<stream, pureVars, srvVars>>

Call_find_third_non_residue ==
    /\ pc = "idle"
    /\ arg' = Fq12_zero
    /\ op' = "find_third_non_residue"
    /\ pc' = "find_third_non_residue"
    /\ FreshLocals
    /\ wg_f' = Fq12_zero /\ ts_a' = Fq12_zero
    /\ UNCHANGED <<stream, pureVars, srvVars>>

Call_rand_third_root ==
    /\ pc = "idle"
    /\ arg' = Fq12_zero
    /\ op' = "rand_third_root"
    /\ pc' = "rand_third_root"
    /\ FreshLocals
    /\ wg_f' = Fq12_zero /\ ts_a' = Fq12_zero
    /\ UNCHANGED <<stream, pureVars, srvVars>>

\* the pure operations return at once
Call_is_third_root ==
    /\ pc = "idle"
    /\ \E a \in Fq12Inputs : arg' = a /\ ret' = <<is_third_root(a)>>
    /\ op' = "is_third_root"
    /\ pc' = "done"
    /\ UNCHANGED <<stack, rngVars, wgVars, tsVars, ftnr_iter, rtr_a, pureVars,
                   srvVars>>

Call_r_th_root_of_f ==
    /\ pc = "idle"
    /\ \E f \in Fq12Inputs : arg' = f /\ ret' = <<r_th_root_of_f(f)>>
    /\ op' = "r_th_root_of_f"
    /\ pc' = "done"
    /\ UNCHANGED <<stack, rngVars, wgVars, tsVars, ftnr_iter, rtr_a, pureVars,
                   srvVars>>

\* the call is over (returned or panicked); the next one starts from idle
Finish ==
    /\ pc \in {"done", "panic"}
    /\ pc' = "idle"
    /\ op' = "" /\ arg' = Fq12_zero
    /\ FreshLocals
    /\ wg_f' = Fq12_zero /\ ts_a' = Fq12_zero
    /\ req' = NoRequest /\ fp12' = Fq12_zero /\ response' = NoResponse
    /\ UNCHANGED <<stream, pureVars>>

\* the steps of the operations the handlers reach
OpSteps ==
    \/ F27_Start \/ F27_Accept \/ F27_Reject
    \/ RTR_Start \/ RTR_Resample \/ RTR_Return
    \/ TS_Start \/ TS_Init \/ TS_Panic \/ TS_Correct \/ TS_Return
    \/ WG_Start \/ WG_Select \/ WG_Roots \/ WG_Return

NextOps ==
    \/ Call_witness_generator
    \/ Call_tonelli_shanks_third_root
    \/ Call_find_27th_root
    \/ Call_find_third_non_residue
    \/ Call_rand_third_root
    \/ Call_is_third_root
    \/ Call_r_th_root_of_f
    \/ Finish
    \/ FTNR_Accept \/ FTNR_Reject
    \/ OpSteps

SpecOps == Init /\ [][NextOps]_vars

(***************************************************************************)
(* resolve_foreign_call (main.rs 62-92) and the handlers (handlers.rs).    *)
(***************************************************************************)
\* a request is parsed and matched on its function name
Request ==
    /\ pc = "idle"
    /\ \E function \in FunctionNames, inputs \in ReqInputs :
          /\ req' = [function |-> function, inputs |-> inputs]
          /\ pc' = HandlerOf(function)
    /\ op' = "resolve_foreign_call"
    /\ arg' = Fq12_zero
    /\ FreshLocals
    /\ wg_f' = Fq12_zero /\ ts_a' = Fq12_zero
    /\ fp12' = Fq12_zero
    /\ response' = NoResponse
    /\ UNCHANGED <<stream, pureVars>>

\* params.as_str() is None
Resolve_BadQuery ==
    /\ pc = "idle"
    /\ op' = "resolve_foreign_call"
    /\ response' = JStrings(<<BadQuery>>)
    /\ pc' = "done"
    /\ UNCHANGED <<stack, arg, ret, rngVars, wgVars, tsVars, ftnr_iter, rtr_a,
                   pureVars, req, fp12>>

\* the string is no JSON of Requests, or the array is empty: expect() or
\* the index [0] panics
Resolve_ParsePanic ==
    /\ pc = "idle"
    /\ op' = "resolve_foreign_call"
    /\ pc' = "panic"
    /\ UNCHANGED <<stack, arg, ret, rngVars, wgVars, tsVars, ftnr_iter, rtr_a,
                   pureVars, srvVars>>

Handle_witness_gen ==
    /\ pc = "handle_witness_gen"
    /\ response' = JString(HelloWorld)
    /\ pc' = "done"
    /\ UNCHANGED <<stack, op, arg, ret, rngVars, wgVars, tsVars, ftnr_iter,
                   rtr_a, pureVars, req, fp12>>

Handle_unknown_function ==
    /\ pc = "handle_unknown_function"
    /\ response' = JStrings(<<Oops>>)
    /\ pc' = "done"
    /\ UNCHANGED <<stack, op, arg, ret, rngVars, wgVars, tsVars, ftnr_iter,
                   rtr_a, pureVars, req, fp12>>

\* get_fq12_from_callparam panics in a handler that decodes
Handle_DecodePanic ==
    /\ pc \in {"handle_third_root", "handle_is_third_root",
               "handle_get_pairing_witnesses"}
    /\ ~ get_fq12_from_callparam(req.inputs).ok
    /\ pc' = "panic"
    /\ UNCHANGED <<stack, op, arg, ret, rngVars, wgVars, tsVars, ftnr_iter,
                   rtr_a, pureVars, srvVars>>

\* handle_third_root: decode, call tonelli_shanks_third_root
Handle_third_root_Call ==
    /\ pc = "handle_third_root"
    /\ get_fq12_from_callparam(req.inputs).ok
    /\ fp12' = get_fq12_from_callparam(req.inputs).elt
    /\ ts_a' = get_fq12_from_callparam(req.inputs).elt
    /\ CallSub("tonelli_shanks_third_root", "handle_third_root_ret")
    /\ UNCHANGED <<op, arg, ret, rngVars, wgVars, ts_w, ts_x, ts_iter,
                   ftnr_iter, rtr_a, pureVars, req, response>>

\* handle_third_root: encode the root
Handle_third_root_Return ==
    /\ pc = "handle_third_root_ret"
    /\ response' = JValuesOfVecs(<<cast_fp12_to_noir_fp12(ret[1])>>)
    /\ pc' = "done"
    /\ UNCHANGED <<stack, op, arg, ret, rngVars, wgVars, tsVars, ftnr_iter,
                   rtr_a, pureVars, req, fp12>>

Handle_is_third_root ==
    /\ pc = "handle_is_third_root"
    /\ get_fq12_from_callparam(req.inputs).ok
    /\ fp12' = get_fq12_from_callparam(req.inputs).elt
    /\ response' = JValuesOfStrings(<<to_str_radix(BoolToBigUint(
                       is_third_root(get_fq12_from_callparam(req.inputs).elt)))>>)
    /\ pc' = "done"
    /\ UNCHANGED <<stack, op, arg, ret, rngVars, wgVars, tsVars, ftnr_iter,
                   rtr_a, pureVars, req>>

\* handle_random_third_root: the inputs are not read
Handle_random_third_root_Call ==
    /\ pc = "handle_random_third_root"
    /\ CallSub("rand_third_root", "handle_random_third_root_ret")
    /\ UNCHANGED <<op, arg, ret, rngVars, wgVars, tsVars, ftnr_iter, rtr_a,
                   pureVars, srvVars>>

Handle_random_third_root_Return ==
    /\ pc = "handle_random_third_root_ret"
    /\ response' = JValuesOfVecs(<<cast_fp12_to_noir_fp12(ret[1])>>)
    /\ pc' = "done"
    /\ UNCHANGED <<stack, op, arg, ret, rngVars, wgVars, tsVars, ftnr_iter,
                   rtr_a, pureVars, req, fp12>>

\* handle_get_pairing_witnesses: decode, call witness_generator
Handle_get_pairing_witnesses_Call ==
    /\ pc = "handle_get_pairing_witnesses"
    /\ get_fq12_from_callparam(req.inputs).ok
    /\ fp12' = get_fq12_from_callparam(req.inputs).elt
    /\ wg_f' = get_fq12_from_callparam(req.inputs).elt
    /\ CallSub("witness_generator", "handle_get_pairing_witnesses_ret")
    /\ UNCHANGED <<op, arg, ret, rngVars, wg_w, wg_s, tsVars, ftnr_iter, rtr_a,
                   pureVars, req, response>>

Handle_get_pairing_witnesses_Return ==
    /\ pc = "handle_get_pairing_witnesses_ret"
    /\ response' = JValuesOfVecs(<<cast_fp12_to_noir_fp12(ret[1]),
                                   cast_fp12_to_noir_fp12(ret[2])>>)
    /\ pc' = "done"
    /\ UNCHANGED <<stack, op, arg, ret, rngVars, wgVars, tsVars, ftnr_iter,
                   rtr_a, pureVars, req, fp12>>

Next ==
    \/ Request
    \/ Resolve_BadQuery
    \/ Resolve_ParsePanic
    \/ Handle_witness_gen
    \/ Handle_unknown_function
    \/ Handle_DecodePanic
    \/ Handle_third_root_Call
    \/ Handle_third_root_Return
    \/ Handle_is_third_root
    \/ Handle_random_third_root_Call
    \/ Handle_random_third_root_Return
    \/ Handle_get_pairing_witnesses_Call
    \/ Handle_get_pairing_witnesses_Return
    \/ Finish
    \/ OpSteps

Spec == Init /\ [][Next]_vars

(***************************************************************************)
(* tonelli_shanks_third_root on inputs that are no cubic residue (checked  *)
(* under Spec).                                                            *)
(***************************************************************************)
\* the cubes of the field
Cubes == { Pow(b, 3) : b \in Fq12 }

\* tonelli_shanks_third_root is in its loop on a nonzero a that fails the
\* cubic-residue test
SpinsOnNonResidue ==
    /\ pc = "ts_loop"
    /\ ts_a # Fq12_zero
    /\ ~ is_third_root(ts_a)

\* C14: handle_third_root and tonelli_shanks_third_root make no residue
\* test: in the loop on a nonzero non-residue a the condition stays true
\* (the residual is never 1, and is no cube), every step is another
\* correction and stays in the loop, and no response or panic comes of it;
\* on a = 0 the step out of the loop is the panic of inverting zero.
C14_NonResidueNeverReturns ==
    /\ [](SpinsOnNonResidue =>
            /\ ts_residual(ts_x, ts_a) # Fq12_one
            /\ ts_residual(ts_x, ts_a) \notin Cubes
            /\ response = NoResponse)
    /\ [][SpinsOnNonResidue =>
              /\ pc' = "ts_loop"
              /\ ts_a' = ts_a
              /\ ts_x' = Mul(ts_x, ts_w)
              /\ response' = NoResponse]_vars
    /\ []((pc = "handle_third_root_ret" /\ req.function = "third_root") =>
            is_third_root(fp12))
    /\ [][(pc = "ts_loop" /\ ts_a = Fq12_zero) => pc' = "panic"]_vars

\* C14 happens: a third_root request on a nonzero non-residue has made more
\* than 27 corrections, a full turn of the powers of w.
C14_Witness ==
    /\ req.function = "third_root"
    /\ SpinsOnNonResidue
    /\ fp12 = ts_a
    /\ ts_iter >= 28

(***************************************************************************)
(* Properties of the operations (checked under SpecOps).                   *)
(***************************************************************************)
\* a call of `name` made at top level has returned
Returned(name) == pc = "done" /\ op = name

\* f is an r-th power: f^h = 1
IsRthPower(f) == Pow(f, h_cofactor) = Fq12_one

\* w has multiplicative order exactly 27
HasOrder27(w) ==
    /\ w # Fq12_one
    /\ Pow(w, 9) # Fq12_one
    /\ Pow(w, 27) = Fq12_one

\* find_27th_root has just returned, to whoever called it
F27Returned ==
    \/ Returned("find_27th_root")
    \/ pc \in {"ts_init", "wg_select"}

\* C1: witness_generator(f) returns (c, u) with c^lambda = f * u, f being
\* the input as given.
C1_WitnessEquation ==
    Returned("witness_generator") =>
        Pow(ret[1], lambda) = Mul(arg, ret[2])

\* C2: the second component returned by witness_generator is w^(3*s).
C2_SecondComponent ==
    Returned("witness_generator") => ret[2] = Pow(wg_w, 3 * wg_s)

\* C3: for a cubic residue a, tonelli_shanks_third_root makes at most 26
\* corrections x <- x*w, and the x it returns has x^3 = a.
C3_CubeRoot ==
    is_third_root(ts_a) =>
        /\ pc = "ts_loop" => ts_iter <= 26
        /\ Returned("tonelli_shanks_third_root") =>
              ts_iter <= 26 /\ Pow(ret[1], 3) = arg
        /\ pc = "wg_return" => ts_iter <= 26 /\ Pow(ret[1], 3) = ts_a

\* C3 happens: a direct call on a cubic residue other than 1 has returned
\* after at least one correction.
C3_Witness ==
    /\ Returned("tonelli_shanks_third_root")
    /\ is_third_root(arg)
    /\ arg # Fq12_one
    /\ ts_iter >= 1

\* C4 as stated: for every f, r_th_root_of_f(f)^r = f.
C4_RthRootEveryF ==
    Returned("r_th_root_of_f") => Pow(ret[1], r) = arg

\* C4 amended: for every f that is an r-th power (f^h = 1) or zero,
\* r_th_root_of_f(f)^r = f.
C4_RthRoot ==
    (Returned("r_th_root_of_f") /\ (IsRthPower(arg) \/ arg = Fq12_zero)) =>
        Pow(ret[1], r) = arg

\* C4 happens: the root of an r-th power other than 0 and 1 was taken, and
\* it is not the input itself.
C4_Witness ==
    /\ Returned("r_th_root_of_f")
    /\ IsRthPower(arg)
    /\ arg # Fq12_one
    /\ ret[1] # arg

\* C6: whenever find_27th_root returns, w has order exactly 27, it is the
\* power of the sample drawn last, and every sample drawn before it (whose
\* power has order 1, 3 or 9) was rejected.
C6_Primitive27thRoot ==
    F27Returned =>
        /\ HasOrder27(ret[1])
        /\ rngPos >= 1
        /\ ret[1] = pow_p12_minus_one_div_27(stream[rngPos])
        /\ \A i \in 1 .. (rngPos - 1) :
              Pow(pow_p12_minus_one_div_27(stream[i]), 9) = Fq12_one

\* C6 happens: find_27th_root returned after rejecting a sample.
C6_Witness ==
    /\ Returned("find_27th_root")
    /\ rngPos >= 2

\* C7: find_third_non_residue returns (a, b) with b^3 # 1 and b^9 = 1.
C7_ThirdNonResidue ==
    Returned("find_third_non_residue") =>
        /\ ret[2] = pow_p12_minus_one_div_27(ret[1])
        /\ Pow(ret[2], 3) # Fq12_one
        /\ Pow(ret[2], 9) = Fq12_one

\* C8 as stated: for every a, zero included, is_third_root(a) holds iff a
\* is a cube.
C8_CubicResidueEveryA ==
    Returned("is_third_root") => (ret[1] <=> arg \in Cubes)

\* C8 amended: for every nonzero a, is_third_root(a) holds iff a is a cube;
\* is_third_root(a) is a^((p12-1)/3) = 1.
C8_CubicResidue ==
    Returned("is_third_root") =>
        /\ ret[1] <=> (Pow(arg, (p12 - 1) \div 3) = Fq12_one)
        /\ arg # Fq12_zero => (ret[1] <=> arg \in Cubes)

\* C8 happens: the test answered true on a cube other than 1.
C8_Witness ==
    /\ Returned("is_third_root")
    /\ ret[1]
    /\ arg # Fq12_one

\* C13: find_third_non_residue returns on its first iteration or never:
\* once an iteration has rejected its sample the call stays in the loop,
\* and every further iteration draws the first sample of the stream again;
\* an iteration of find_27th_root or rand_third_root that does not return
\* moves its rng on to the next sample.
C13_SameSampleEveryIteration ==
    /\ [](Returned("find_third_non_residue") => ftnr_iter = 1)
    /\ []((pc = "find_third_non_residue" /\ ftnr_iter >= 1) =>
            ~ ftnr_accepts(pow_p12_minus_one_div_27(stream[1])))
    /\ [][(pc = "find_third_non_residue" /\ ftnr_iter >= 1) =>
              /\ pc' = "find_third_non_residue"
              /\ rngPos' = 1
              /\ stream' = stream]_vars
    /\ [][(pc = "f27_loop" /\ pc' = "f27_loop") =>
              rngPos' = rngPos + 1]_vars
    /\ [][(pc = "rtr_loop" /\ pc' = "rtr_loop") =>
              rngPos' = rngPos + 1]_vars

\* C13 happens: find_third_non_residue is in its third iteration or later,
\* on a first sample whose power b has b^3 = 1 and is not 1.
C13_Witness ==
    /\ pc = "find_third_non_residue"
    /\ ftnr_iter >= 2
    /\ rngPos = 1
    /\ pow_p12_minus_one_div_27(stream[1]) # Fq12_one

(***************************************************************************)
(* invert applied to small operands.                                       *)
(***************************************************************************)
Call_invert ==
    /\ \E a \in 0 .. MaxInvA, m \in 1 .. MaxInvM :
          /\ inv_a' = a
          /\ inv_m' = m
          /\ inv_out' = invert(a, m)
    /\ UNCHANGED <<pc, stack, op, arg, ret, rngVars, wgVars, tsVars, ftnr_iter,
                   rtr_a, cd_dir, cd_x, cd_in, cd_dec, cd_out, cc_call, cc_rng,
                   srvVars>>

SpecInvert == Init /\ [][Call_invert]_vars

RECURSIVE GCD(_, _)
GCD(a, b) == IF b = 0 THEN a ELSE GCD(b, a % b)

\* C5 as stated: for a >= 0 and m >= 1 with gcd(a, m) = 1, invert(a, m) is
\* the one v in [0, m) with a*v = 1 (mod m); with gcd(a, m) # 1 it aborts.
C5_InvertEveryModulus ==
    IF GCD(inv_a, inv_m) = 1
    THEN /\ inv_out.ok
         /\ \A v \in 0 .. (inv_m - 1) :
               ((inv_a * v) % inv_m = 1 % inv_m) <=> (v = inv_out.val)
         /\ inv_out.val \in 0 .. (inv_m - 1)
    ELSE ~ inv_out.ok

\* C5 amended: the same for every a >= 0 and m >= 1 but a = m = 1, where
\* invert returns 1, which is not in [0, 1).
C5_Invert ==
    IF GCD(inv_a, inv_m) = 1
    THEN /\ inv_out.ok
         /\ IF inv_a = 1 /\ inv_m = 1
            THEN inv_out.val = 1
            ELSE /\ \A v \in 0 .. (inv_m - 1) :
                       ((inv_a * v) % inv_m = 1 % inv_m) <=> (v = inv_out.val)
                 /\ inv_out.val \in 0 .. (inv_m - 1)
    ELSE ~ inv_out.ok

\* C5 happens: a >= m, and the Bezout coefficient was negative, so the
\* result was normalised.
C5_Witness ==
    /\ inv_out.ok
    /\ inv_a > inv_m
    /\ inv_m > 2
    /\ extended_gcd(inv_a, inv_m)[2] < 0
    /\ inv_out.val > 1

(***************************************************************************)
(* Round trips through the limb codec.                                     *)
(***************************************************************************)
\* encode an element, then decode what the caller would send back
Codec_EncodeDecode ==
    /\ cd_dir = "none"
    /\ \E x \in CodecElts :
          /\ cd_x' = x
          /\ cd_out' = cast_fp12_to_noir_fp12(x)
          /\ cd_in' = AsArrayParams(cast_fp12_to_noir_fp12(x))
          /\ cd_dec' = get_fq12_from_callparam(
                           AsArrayParams(cast_fp12_to_noir_fp12(x)))
    /\ cd_dir' = "encode_decode"
    /\ UNCHANGED <<pc, stack, op, arg, ret, rngVars, wgVars, tsVars, ftnr_iter,
                   rtr_a, inv_a, inv_m, inv_out, cc_call, cc_rng, srvVars>>

\* decode an input list, then encode the element (when there is one)
Codec_DecodeEncode ==
    /\ cd_dir = "none"
    /\ \E inputs \in CodecInputs \cup MiscountedInputs :
          /\ cd_in' = inputs
          /\ cd_dec' = get_fq12_from_callparam(inputs)
          /\ cd_out' = IF get_fq12_from_callparam(inputs).ok
                       THEN cast_fp12_to_noir_fp12(
                                get_fq12_from_callparam(inputs).elt)
                       ELSE <<>>
    /\ cd_x' = Fq12_zero
    /\ cd_dir' = "decode_encode"
    /\ UNCHANGED <<pc, stack, op, arg, ret, rngVars, wgVars, tsVars, ftnr_iter,
                   rtr_a, inv_a, inv_m, inv_out, cc_call, cc_rng, srvVars>>

NextCodec == Codec_EncodeDecode \/ Codec_DecodeEncode

SpecCodec == Init /\ [][NextCodec]_vars

\* the number a limb string stands for: hexadecimal, the empty string 0
LimbNumber(str) == IF str = <<>> THEN 0 ELSE hex_value(str, 0)

\* a limb string of hexadecimal digits that stands for a number < 2^LimbBits
IsLimb(str) ==
    /\ \A i \in 1 .. Len(str) : IsHexChar(str[i])
    /\ LimbNumber(str) < IntPow(2, LimbBits)

\* the coordinate a param of NumLimbs limbs stands for
CoordNumber(param) ==
    LimbNumber(param.values[1])
    + IntPow(2, LimbBits) * LimbNumber(param.values[2])
    + IntPow(2, 2 * LimbBits) * LimbNumber(param.values[3])

\* a valid input list: NumCoords coordinates below p, each an Array of
\* NumLimbs limbs
ValidInputs(inputs) ==
    /\ Len(inputs) = NumCoords
    /\ \A i \in 1 .. NumCoords :
          /\ inputs[i].tag = "Array"
          /\ Len(inputs[i].values) = NumLimbs
          /\ \A j \in 1 .. NumLimbs : IsLimb(inputs[i].values[j])
          /\ CoordNumber(inputs[i]) < p

\* a string of zeros only, the empty string included
OnlyZeros(str) == \A i \in 1 .. Len(str) : str[i] = "0"

\* C9: decoding the encoding of an element gives the element back; encoding
\* the decoding of a valid input list gives limbs of the same values; a
\* limb that is empty or zeros only decodes to 0.
C9_CodecRoundTrip ==
    /\ cd_dir = "encode_decode" => cd_dec.ok /\ cd_dec.elt = cd_x
    /\ (cd_dir = "decode_encode" /\ ValidInputs(cd_in)) =>
          /\ cd_dec.ok
          /\ Len(cd_out) = NumCoords * NumLimbs
          /\ \A i \in 1 .. NumCoords : \A j \in 1 .. NumLimbs :
                LimbNumber(cd_out[(i - 1) * NumLimbs + j])
                    = LimbNumber(cd_in[i].values[j])
    /\ \A i \in 1 .. Len(cd_in) : \A j \in 1 .. Len(cd_in[i].values) :
          OnlyZeros(cd_in[i].values[j]) =>
              parse_limb(callparam_to_string(cd_in[i])[j])
                  = [ok |-> TRUE, val |-> 0]

\* C9 happens: a valid input list with a zero-padded limb, an empty limb
\* and a coordinate that needs its third limb was decoded and encoded.
C9_Witness ==
    /\ cd_dir = "decode_encode"
    /\ ValidInputs(cd_in)
    /\ cd_in[1].values[1] = <<"0", "4">>
    /\ cd_in[1].values[2] = <<>>
    /\ cd_dec.elt[1] >= IntPow(2, 2 * LimbBits)
    /\ cd_dec.elt[2] >= IntPow(2, 2 * LimbBits)

\* a limb string with a character that is no hexadecimal digit
IsMalformedHex(str) == \E i \in 1 .. Len(str) : ~ IsHexChar(str[i])

\* a limb string of hexadecimal digits whose number is 2^LimbBits or more
IsOversized(str) ==
    /\ ~ IsMalformedHex(str)
    /\ LimbNumber(str) >= IntPow(2, LimbBits)

\* the number of coordinates, or of limbs of a coordinate, is wrong
IsMiscounted(inputs) ==
    \/ Len(inputs) # NumCoords
    \/ \E i \in 1 .. Len(inputs) : Len(inputs[i].values) # NumLimbs

\* C11: decoding fails, and nothing is encoded from it, whenever a limb is
\* malformed hex, a limb is 2^LimbBits or more, or the number of coordinates
\* or limbs is wrong.
C11_DecodeRejects ==
    (/\ cd_dir = "decode_encode"
     /\ \/ IsMiscounted(cd_in)
        \/ \E i \in 1 .. Len(cd_in) : \E j \in 1 .. Len(cd_in[i].values) :
              IsMalformedHex(cd_in[i].values[j]) \/ IsOversized(cd_in[i].values[j]))
    => (~ cd_dec.ok /\ cd_out = <<>>)

(***************************************************************************)
(* Properties of the responses (checked under Spec).                       *)
(***************************************************************************)
\* resolve_foreign_call has answered a request that carried a function name
Answered == pc = "done" /\ op = "resolve_foreign_call" /\ req # NoRequest

\* a JSON array of one or more strings
IsLimbSequence(v) ==
    /\ v.kind = "array"
    /\ Len(v.items) >= 1
    /\ \A i \in 1 .. Len(v.items) : v.items[i].kind = "string"

\* { "values": [ ... ] } and nothing else
IsValuesObject(v) ==
    /\ v.kind = "object"
    /\ DOMAIN v.fields = {"values"}
    /\ v.fields.values.kind = "array"

\* { "values": [ ... ] } whose list holds one or more limb sequences
HasValuesShape(v) ==
    /\ IsValuesObject(v)
    /\ Len(v.fields.values.items) >= 1
    /\ \A i \in 1 .. Len(v.fields.values.items) :
          IsLimbSequence(v.fields.values.items[i])

\* the items of the response's list, whether it is bare or under "values"
ResponseItems(v) ==
    IF v.kind = "array" THEN v.items
    ELSE IF IsValuesObject(v) THEN v.fields.values.items
    ELSE <<>>

\* the response holds the string str
HoldsString(v, str) ==
    \E i \in 1 .. Len(ResponseItems(v)) :
        /\ ResponseItems(v)[i].kind = "string"
        /\ ResponseItems(v)[i].str = str

\* C10 as stated: whatever the function name, the answer is
\* { "values": [ ... ] } with one or more limb sequences in the list; an
\* unknown name is answered with "oops" in it.
C10_ValuesShapeEveryName ==
    Answered =>
        /\ HasValuesShape(response)
        /\ HandlerOf(req.function) = "handle_unknown_function" =>
              HoldsString(response, Oops)

\* C10 amended: the answer to third_root and random_third_root is
\* { "values": [limbs] }, to get_pairing_witnesses { "values": [limbs,
\* limbs] }, each limbs a sequence of NumCoords * NumLimbs limbs; to
\* is_third_root it is { "values": [limb] } with the one limb "0" or "1";
\* to witness_gen it is the bare string "Hello, world!"; to an unknown name
\* it is the bare list ["oops"].
C10_ResponseShape ==
    Answered =>
        CASE req.function \in {"third_root", "random_third_root"} ->
                 /\ HasValuesShape(response)
                 /\ Len(response.fields.values.items) = 1
                 /\ Len(response.fields.values.items[1].items)
                        = NumCoords * NumLimbs
          [] req.function = "get_pairing_witnesses" ->
                 /\ HasValuesShape(response)
                 /\ Len(response.fields.values.items) = 2
                 /\ \A i \in 1 .. 2 :
                       Len(response.fields.values.items[i].items)
                           = NumCoords * NumLimbs
          [] req.function = "is_third_root" ->
                 /\ IsValuesObject(response)
                 /\ Len(response.fields.values.items) = 1
                 /\ response.fields.values.items[1].kind = "string"
                 /\ response.fields.values.items[1].str \in {<<"0">>, <<"1">>}
          [] req.function = "witness_gen" ->
                 /\ response.kind = "string"
                 /\ response.str = HelloWorld
          [] OTHER ->
                 /\ response.kind = "array"
                 /\ Len(response.items) = 1
                 /\ HoldsString(response, Oops)

\* C10 happens: get_pairing_witnesses was answered for an element other
\* than 0 and 1.
C10_Witness ==
    /\ Answered
    /\ req.function = "get_pairing_witnesses"
    /\ fp12 \notin {Fq12_zero, Fq12_one}
    /\ Len(response.fields.values.items) = 2

(***************************************************************************)
(* Calls of resolve_foreign_call running in parallel (main.rs 62-92).  The *)
(* runtime may run the closure for several requests at once; each call has *)
(* its own locals, and each ark_std::test_rng() builds an rng object that  *)
(* is a local of the function that builds it.  The stream of samples is    *)
(* the one fixed stream of the seed.  The arithmetic between two uses of   *)
(* the rng touches locals only and is one step.                            *)
(***************************************************************************)
\* the element a coordinate list stands for is sent as these params
CoordParam(v) == Array(cast_bigint_to_bignum_limbs(v, NumLimbs))

\* the requests of the parallel calls: every name, on zero, on a cube, on
\* an element that is no cube, on a short list
ConcRequests ==
    { [function |-> "witness_gen", inputs |-> <<CoordParam(0), CoordParam(0)>>],
      [function |-> "unknown", inputs |-> <<CoordParam(0), CoordParam(0)>>],
      [function |-> "is_third_root", inputs |-> <<CoordParam(0), CoordParam(3)>>],
      [function |-> "third_root", inputs |-> <<CoordParam(0), CoordParam(3)>>],
      [function |-> "third_root", inputs |-> <<CoordParam(2), CoordParam(0)>>],
      [function |-> "third_root", inputs |-> <<CoordParam(0), CoordParam(0)>>],
      [function |-> "random_third_root", inputs |-> <<>>],
      [function |-> "get_pairing_witnesses",
       inputs |-> <<CoordParam(2), CoordParam(0)>>],
      [function |-> "get_pairing_witnesses", inputs |-> <<CoordParam(1)>>] }

\* mutant: one rng object for the whole process
rng_object_global(i) == "call1"

\* the rng object call i draws from: the local its function built
rng_object(i) == i

\* let mut rng = ark_std::test_rng();
CC_test_rng(i) == cc_rng' = [cc_rng EXCEPT ![rng_object(i)] = 0]

\* Fq12::rand(&mut rng)
CC_rand(i, x) ==
    /\ cc_rng[rng_object(i)] < MaxDraws
    /\ IF cc_rng[rng_object(i)] < Len(stream)
       THEN x = stream[cc_rng[rng_object(i)] + 1] /\ stream' = stream
       ELSE stream' = Append(stream, x)
    /\ cc_rng' = [cc_rng EXCEPT ![rng_object(i)] = @ + 1]

\* x after k corrections of the first guess x0: x0 * w^k
ts_corrected(x0, w, k) == Mul(x0, Pow(w, k))

\* the loop of tonelli_shanks_third_root from the first guess x0: it ends
\* at the first k whose residual is 1 and returns that x; with no such k
\* among 27 successive ones it goes on for good (it multiplies by w^27 = 1
\* every 27 corrections)
ts_corrections(x0, a, w) ==
    LET ends == { k \in 0 .. 26 : ts_residual(ts_corrected(x0, w, k), a) = Fq12_one }
    IN  IF ends = {} THEN [pc |-> "spin", x |-> x0]
        ELSE [pc |-> "done",
              x |-> ts_corrected(x0, w,
                        CHOOSE k \in ends : \A j \in ends : k <= j)]

\* tonelli_shanks_third_root after its find_27th_root returned w
ts_outcome(a, w) ==
    IF Inverse(a) = None THEN [pc |-> "panic", x |-> Fq12_zero]
    ELSE ts_corrections(Pow(a, ts_exp), a, w)

\* everything the parallel calls leave alone
ccOthers == <<pc, stack, op, arg, ret, rngPos, wgVars, tsVars, ftnr_iter, rtr_a,
              inv_a, inv_m, inv_out, cd_dir, cd_x, cd_in, cd_dec, cd_out,
              srvVars>>

\* call i moves to pc_ with the response out
CC_End(i, pc_, out) ==
    cc_call' = [cc_call EXCEPT ![i] = [@ EXCEPT !.pc = pc_, !.out = out]]

\* a request arrives and is matched on its function name
CC_Request(i) ==
    /\ cc_call[i].pc = "idle"
    /\ \E request \in ConcRequests :
          cc_call' = [cc_call EXCEPT ![i] =
              [IdleCall EXCEPT !.pc = HandlerOf(request.function),
                               !.req = request]]
    /\ UNCHANGED <<stream, cc_rng, ccOthers>>

CC_Handle_witness_gen(i) ==
    /\ cc_call[i].pc = "handle_witness_gen"
    /\ CC_End(i, "done", JString(HelloWorld))
    /\ UNCHANGED <<stream, cc_rng, ccOthers>>

CC_Handle_unknown_function(i) ==
    /\ cc_call[i].pc = "handle_unknown_function"
    /\ CC_End(i, "done", JStrings(<<Oops>>))
    /\ UNCHANGED <<stream, cc_rng, ccOthers>>

CC_Handle_DecodePanic(i) ==
    /\ cc_call[i].pc \in {"handle_third_root", "handle_is_third_root",
                          "handle_get_pairing_witnesses"}
    /\ ~ get_fq12_from_callparam(cc_call[i].req.inputs).ok
    /\ CC_End(i, "panic", NoResponse)
    /\ UNCHANGED <<stream, cc_rng, ccOthers>>

CC_Handle_is_third_root(i) ==
    /\ cc_call[i].pc = "handle_is_third_root"
    /\ get_fq12_from_callparam(cc_call[i].req.inputs).ok
    /\ CC_End(i, "done",
              JValuesOfStrings(<<to_str_radix(BoolToBigUint(is_third_root(
                  get_fq12_from_callparam(cc_call[i].req.inputs).elt)))>>))
    /\ UNCHANGED <<stream, cc_rng, ccOthers>>

\* handle_third_root up to the rng of tonelli_shanks_third_root's
\* find_27th_root
CC_Handle_third_root(i) ==
    /\ cc_call[i].pc = "handle_third_root"
    /\ get_fq12_from_callparam(cc_call[i].req.inputs).ok
    /\ cc_call' = [cc_call EXCEPT ![i] =
           [@ EXCEPT !.pc = "ts_find_27th_root",
                     !.a = get_fq12_from_callparam(cc_call[i].req.inputs).elt]]
    /\ CC_test_rng(i)
    /\ UNCHANGED <<stream, ccOthers>>

\* handle_random_third_root up to the rng of rand_third_root
CC_Handle_random_third_root(i) ==
    /\ cc_call[i].pc = "handle_random_third_root"
    /\ cc_call' = [cc_call EXCEPT ![i] = [@ EXCEPT !.pc = "rand_third_root"]]
    /\ CC_test_rng(i)
    /\ UNCHANGED <<stream, ccOthers>>

\* handle_get_pairing_witnesses up to the rng of witness_generator's
\* find_27th_root
CC_Handle_get_pairing_witnesses(i) ==
    /\ cc_call[i].pc = "handle_get_pairing_witnesses"
    /\ get_fq12_from_callparam(cc_call[i].req.inputs).ok
    /\ cc_call' = [cc_call EXCEPT ![i] =
           [@ EXCEPT !.pc = "wg_find_27th_root",
                     !.a = get_fq12_from_callparam(cc_call[i].req.inputs).elt]]
    /\ CC_test_rng(i)
    /\ UNCHANGED <<stream, ccOthers>>

\* rand_third_root: one sample; it is returned and encoded, or the loop
\* goes on
CC_rand_third_root(i) ==
    /\ cc_call[i].pc = "rand_third_root"
    /\ \E a \in RngSamples :
          /\ CC_rand(i, a)
          /\ IF is_third_root(a)
             THEN CC_End(i, "done", JValuesOfVecs(<<cast_fp12_to_noir_fp12(a)>>))
             ELSE UNCHANGED cc_call
    /\ UNCHANGED ccOthers

\* find_27th_root, in any of its three callers: a sample that is rejected
CC_find_27th_root_Reject(i) ==
    /\ cc_call[i].pc \in {"ts_find_27th_root", "wg_find_27th_root",
                          "wg_ts_find_27th_root"}
    /\ \E x \in RngSamples :
          /\ CC_rand(i, x)
          /\ ~ f27_accepts(pow_p12_minus_one_div_27(x))
    /\ UNCHANGED <<cc_call, ccOthers>>

\* handle_third_root from the accepted w to the response
CC_third_root_Finish(i) ==
    /\ cc_call[i].pc = "ts_find_27th_root"
    /\ \E x \in RngSamples :
          /\ CC_rand(i, x)
          /\ f27_accepts(pow_p12_minus_one_div_27(x))
          /\ \E w \in {pow_p12_minus_one_div_27(x)} :
             \E o \in {ts_outcome(cc_call[i].a, w)} :
                CC_End(i, o.pc,
                       IF o.pc = "done"
                       THEN JValuesOfVecs(<<cast_fp12_to_noir_fp12(o.x)>>)
                       ELSE NoResponse)
    /\ UNCHANGED ccOthers

\* witness_generator from the accepted w to the call of
\* tonelli_shanks_third_root
CC_witness_generator_Roots(i) ==
    /\ cc_call[i].pc = "wg_find_27th_root"
    /\ \E x \in RngSamples :
          /\ CC_rand(i, x)
          /\ f27_accepts(pow_p12_minus_one_div_27(x))
          /\ \E w \in {pow_p12_minus_one_div_27(x)} :
             \E sel \in {wg_select(cc_call[i].a, w)} :
             \E c \in {r_th_root_of_f(sel.f)} :
                cc_call' = [cc_call EXCEPT ![i] =
                    [@ EXCEPT !.pc = "wg_tonelli_shanks_third_root",
                              !.w = w,
                              !.s = sel.s,
                              !.a = mp_th_root_of_c(c)]]
    /\ UNCHANGED ccOthers

\* tonelli_shanks_third_root, called by witness_generator, builds the rng
\* of its find_27th_root
CC_witness_generator_Tonelli(i) ==
    /\ cc_call[i].pc = "wg_tonelli_shanks_third_root"
    /\ cc_call' = [cc_call EXCEPT ![i] = [@ EXCEPT !.pc = "wg_ts_find_27th_root"]]
    /\ CC_test_rng(i)
    /\ UNCHANGED <<stream, ccOthers>>

\* handle_get_pairing_witnesses from the second accepted w to the response
CC_get_pairing_witnesses_Finish(i) ==
    /\ cc_call[i].pc = "wg_ts_find_27th_root"
    /\ \E x \in RngSamples :
          /\ CC_rand(i, x)
          /\ f27_accepts(pow_p12_minus_one_div_27(x))
          /\ \E w \in {pow_p12_minus_one_div_27(x)} :
             \E o \in {ts_outcome(cc_call[i].a, w)} :
                CC_End(i, o.pc,
                       IF o.pc = "done"
                       THEN JValuesOfVecs(<<
                                cast_fp12_to_noir_fp12(o.x),
                                cast_fp12_to_noir_fp12(
                                    Pow(cc_call[i].w,
                                        wg_u_exponent(cc_call[i].s)))>>)
                       ELSE NoResponse)
    /\ UNCHANGED ccOthers

\* the call is over; the next request of this slot starts afresh
CC_Finish(i) ==
    /\ cc_call[i].pc \in {"done", "panic"}
    /\ cc_call' = [cc_call EXCEPT ![i] = IdleCall]
    /\ UNCHANGED <<stream, cc_rng, ccOthers>>

NextConc ==
    \E i \in Calls :
        \/ CC_Request(i)
        \/ CC_Handle_witness_gen(i)
        \/ CC_Handle_unknown_function(i)
        \/ CC_Handle_DecodePanic(i)
        \/ CC_Handle_is_third_root(i)
        \/ CC_Handle_third_root(i)
        \/ CC_Handle_random_third_root(i)
        \/ CC_Handle_get_pairing_witnesses(i)
        \/ CC_rand_third_root(i)
        \/ CC_find_27th_root_Reject(i)
        \/ CC_third_root_Finish(i)
        \/ CC_witness_generator_Roots(i)
        \/ CC_witness_generator_Tonelli(i)
        \/ CC_get_pairing_witnesses_Finish(i)
        \/ CC_Finish(i)

SpecConc == Init /\ [][NextConc]_vars

\* call i is over, or is in the tonelli loop for good
CC_Ended(i) == cc_call[i].pc \in {"done", "panic", "spin"}

\* C12: the outcome of a request is a function of its function name and
\* inputs: two calls that are over on the same request, whatever ran beside
\* or before them, ended the same way with the same response.
C12_ResponseFunctionOfRequest ==
    \A i \in Calls : \A j \in Calls :
        (CC_Ended(i) /\ CC_Ended(j) /\ cc_call[i].req = cc_call[j].req) =>
            /\ cc_call[i].pc = cc_call[j].pc
            /\ cc_call[i].out = cc_call[j].out

\* C12 happens: two get_pairing_witnesses calls on the same inputs have both
\* answered, each after a rejected sample, the rng of one built while the
\* other was drawing.
C12_Witness ==
    /\ cc_call["call1"].pc = "done"
    /\ cc_call["call2"].pc = "done"
    /\ cc_call["call1"].req.function = "get_pairing_witnesses"
    /\ cc_call["call1"].req = cc_call["call2"].req
    /\ Len(stream) >= 2
    /\ cc_rng["call1"] >= 2
    /\ cc_rng["call2"] >= 2
    /\ cc_call["call1"].out.kind = "object"

=============================================================================
